---- MODULE Spec2Model ----
(***************************************************************************)
(* Model of the SFU control plane of src/src/webrtc-server.js: the         *)
(* participant registry and stream mixer of SFUManager, its layer          *)
(* controller (enableSimulcast, enableSVC, adjustBitrate), the adaptation  *)
(* loop started by monitorNetworkConditions, and the addTrack wrapper of   *)
(* RTCPeerConnection.                                                      *)
(*                                                                         *)
(* The connections handed to SFUManager are the transport engine's         *)
(* connection objects (./bind): addParticipant assigns their ontrack       *)
(* property and enableSimulcast uses the sender that their addTrack        *)
(* returns synchronously.  The transport is external; what it is free to   *)
(* do is a choice made in Init (dupPolicy, freshEncodings) or at the call  *)
(* (a statistics request on a closed connection).  The file uses the       *)
(* global MediaStream without defining or importing it: whether the        *)
(* runtime has such a global is a choice made in Init (globalMediaStream). *)
(***************************************************************************)
EXTENDS Integers, Sequences, FiniteSets, TLC

\* ---------------------------------------------------------------- bounds
NIds == 3
NConns == 3
NTracks == 1
NStreams == 1
MaxSenders == 3
MaxTimers == 2
MaxAwaiting == 2
MaxPending == 1
NFull == 1
NReg == 2
NAdapt == 2

Ids == 1..NIds
Conns == 1..NConns
Tracks == 1..NTracks
StreamIds == 1..NStreams

\* ------------------------------------------------------- encoding layers
\* An absent property of a JS object is Unset (numbers) or "" (strings).
Unset == -1

EmptyLayer ==
  [rid |-> "", maxBitrate |-> Unset, scaleResolutionDownBy |-> Unset,
   scalabilityMode |-> ""]

\* params as returned by sender.getParameters(): has = "encodings present"
NoEncodings == [has |-> FALSE, encodings |-> <<>>]

OneEmptyEncoding == [has |-> TRUE, encodings |-> <<EmptyLayer>>]

SimulcastEncodings ==
  << [rid |-> "f", maxBitrate |-> 500000, scaleResolutionDownBy |-> Unset,
      scalabilityMode |-> ""],
     [rid |-> "h", maxBitrate |-> 200000, scaleResolutionDownBy |-> 2,
      scalabilityMode |-> ""],
     [rid |-> "q", maxBitrate |-> 100000, scaleResolutionDownBy |-> 4,
      scalabilityMode |-> ""] >>

\* ------------------------------------------------------------------ state
VARIABLES
  participants,   \* SFUManager.participants: Map in insertion order
  mixedStreams,   \* SFUManager.mixedStreams: stream id -> member tracks
  ontrack,        \* per connection: participant id bound in its ontrack, 0 = none
  closed,         \* per connection: close() has been called on it
  senders,        \* per connection: getSenders(), each [track, params]
  timers,         \* per connection: number of setInterval timers running
  awaiting,       \* per connection: ticks suspended at `await pc.getStats()`
  pending,        \* RTCPeerConnection.addTrack calls suspended at their await
  dupPolicy,      \* transport: addTrack of a track that already has a sender
  freshEncodings, \* transport: does a new sender report an encodings list
  globalMediaStream, \* runtime: is there a global MediaStream constructor
  lastOp          \* the operation that produced this state, and its effects

vars == <<participants, mixedStreams, ontrack, closed, senders, timers,
          awaiting, pending, dupPolicy, freshEncodings, globalMediaStream,
          lastOp>>

NoOp ==
  [op |-> "init", id |-> 0, pc |-> 0, track |-> 0, streams |-> <<>>,
   bw |-> 0, sender |-> 0, prior |-> NoEncodings, threw |-> FALSE,
   calls |-> <<>>, closes |-> <<>>, old |-> 0, stats |-> <<>>,
   tracks |-> <<>>, before |-> <<>>]

\* ------------------------------------------------------- Map operations
RECURSIVE indexOf(_, _, _)
indexOf(m, id, i) ==
  IF i > Len(m) THEN 0
  ELSE IF m[i].id = id THEN i ELSE indexOf(m, id, i + 1)

MapHas(m, id) == indexOf(m, id, 1) # 0

MapGet(m, id) == m[indexOf(m, id, 1)].pc

\* Map.prototype.set: an existing key keeps its position
MapSet(m, id, pc) ==
  IF MapHas(m, id)
  THEN [m EXCEPT ![indexOf(m, id, 1)] = [id |-> id, pc |-> pc]]
  ELSE Append(m, [id |-> id, pc |-> pc])

MapDelete(m, id) ==
  LET k == indexOf(m, id, 1)
  IN IF k = 0 THEN m
     ELSE SubSeq(m, 1, k - 1) \o SubSeq(m, k + 1, Len(m))

MapKeys(m) == {m[i].id : i \in 1..Len(m)}

\* ------------------------------------------------------------- transport
RECURSIVE senderOf(_, _, _)
senderOf(ss, track, i) ==
  IF i > Len(ss) THEN 0
  ELSE IF ss[i].track = track THEN i ELSE senderOf(ss, track, i + 1)

FreshParams(fe) == IF fe THEN OneEmptyEncoding ELSE NoEncodings

\* connection.addTrack(track, ...streams) of the transport engine on the
\* sender list ss of one connection: [ok, senders, sender]
pcAddTrack(ss, isClosed, track, dup, fe) ==
  LET k == senderOf(ss, track, 1)
  IN IF isClosed THEN [ok |-> FALSE, senders |-> ss, sender |-> 0]
     ELSE IF k # 0 /\ dup = "reuse"
       THEN [ok |-> TRUE, senders |-> ss, sender |-> k]
     ELSE IF k # 0 /\ dup = "throw"
       THEN [ok |-> FALSE, senders |-> ss, sender |-> 0]
     ELSE [ok |-> TRUE,
           senders |-> Append(ss, [track |-> track, params |-> FreshParams(fe)]),
           sender |-> Len(ss) + 1]

\* connection.removeTrack(sender) of the transport engine on the sender
\* list ss: the sender stays in the list with no track (0), so that a later
\* addTrack of the track finds no sender of it; a closed connection throws
pcRemoveTrack(ss, isClosed, i) ==
  IF isClosed THEN [ok |-> FALSE, senders |-> ss]
  ELSE [ok |-> TRUE, senders |-> [ss EXCEPT ![i].track = 0]]

\* ---------------------------------------------------------------- registry
\* mutant: a duplicate identifier closes the connection it replaces
addParticipant_ClosesReplaced(m, ot, participantId, peerConnection) ==
  [participants |-> MapSet(m, participantId, peerConnection),
   ontrack |-> [ot EXCEPT ![peerConnection] = participantId],
   closes |-> IF MapHas(m, participantId)
              THEN <<MapGet(m, participantId)>> ELSE <<>>]

\* SFUManager.addParticipant: the new Map, the ontrack callbacks and the
\* connections closed
addParticipant(m, ot, participantId, peerConnection) ==
  [participants |-> MapSet(m, participantId, peerConnection),
   ontrack |-> [ot EXCEPT ![peerConnection] = participantId],
   closes |-> <<>>]

\* mutant: the connection is closed and the entry is kept
removeParticipant_KeepsEntry(m, participantId) ==
  IF MapHas(m, participantId)
  THEN [participants |-> m,
        closes |-> <<MapGet(m, participantId)>>, threw |-> FALSE]
  ELSE [participants |-> m, closes |-> <<>>, threw |-> FALSE]

\* mutant: no participants.has test, so that close is called on undefined
removeParticipant_NoHasTest(m, participantId) ==
  IF MapHas(m, participantId)
  THEN [participants |-> MapDelete(m, participantId),
        closes |-> <<MapGet(m, participantId)>>, threw |-> FALSE]
  ELSE [participants |-> m, closes |-> <<>>, threw |-> TRUE]

\* SFUManager.removeParticipant: the new Map, the connections closed and
\* whether the call raised an error
removeParticipant(m, participantId) ==
  IF MapHas(m, participantId)
  THEN [participants |-> MapDelete(m, participantId),
        closes |-> <<MapGet(m, participantId)>>, threw |-> FALSE]
  ELSE [participants |-> m, closes |-> <<>>, threw |-> FALSE]

\* ------------------------------------------------------------------- mixer
\* the forEach of handleTrack from entry i on: an exception of addTrack
\* leaves the loop
RECURSIVE fanOut(_, _, _, _, _, _, _, _, _)
fanOut(m, i, participantId, track, sid, snd, cl, dup, fe) ==
  IF i > Len(m) THEN [senders |-> snd, calls |-> <<>>, threw |-> FALSE]
  ELSE IF m[i].id = participantId
    THEN fanOut(m, i + 1, participantId, track, sid, snd, cl, dup, fe)
  ELSE
    LET pc == m[i].pc
        r == pcAddTrack(snd[pc], cl[pc], track, dup, fe)
        call == [id |-> m[i].id, pc |-> pc, track |-> track,
                 mixed |-> TRUE, sid |-> sid, ok |-> r.ok]
    IN IF ~r.ok
       THEN [senders |-> snd, calls |-> <<call>>, threw |-> TRUE]
       ELSE LET rest == fanOut(m, i + 1, participantId, track, sid,
                               [snd EXCEPT ![pc] = r.senders], cl, dup, fe)
            IN [senders |-> rest.senders, calls |-> <<call>> \o rest.calls,
                threw |-> rest.threw]

\* mixedStreams after the lookup-or-create and mixedStream.addTrack; gms:
\* the runtime has a global MediaStream.  Without one, `new MediaStream()`
\* is a ReferenceError for a stream id that has no entry yet.
mixTrack(ms, sid, track, gms) ==
  IF sid \in DOMAIN ms
  THEN [ok |-> TRUE, mixedStreams |-> [ms EXCEPT ![sid] = @ \cup {track}]]
  ELSE IF ~gms THEN [ok |-> FALSE, mixedStreams |-> ms]
  ELSE [ok |-> TRUE,
        mixedStreams |-> [s \in DOMAIN ms \cup {sid} |->
                            IF s = sid THEN {track} ELSE ms[s]]]

\* mutant: a track without a stream is forwarded, to no mixed stream
handleTrack_NoStream(m, ms, snd, cl, participantId, track, streams, dup, fe, gms) ==
  LET sid == IF streams = <<>> THEN 0 ELSE streams[1]
      f == fanOut(m, 1, participantId, track, sid, snd, cl, dup, fe)
      x == mixTrack(ms, sid, track, gms)
  IN IF streams # <<>> /\ ~x.ok
     THEN [mixedStreams |-> ms, senders |-> snd, calls |-> <<>>,
           threw |-> TRUE]
     ELSE [mixedStreams |-> IF streams = <<>> THEN ms ELSE x.mixedStreams,
           senders |-> f.senders, calls |-> f.calls, threw |-> f.threw]

\* SFUManager.handleTrack; streams = the ids of event.streams.  An event
\* without a stream fails at stream.id, a failed lookup-or-create at
\* `new MediaStream()`: both before anything is stored or forwarded.
handleTrack(m, ms, snd, cl, participantId, track, streams, dup, fe, gms) ==
  IF streams = <<>>
  THEN [mixedStreams |-> ms, senders |-> snd, calls |-> <<>>, threw |-> TRUE]
  ELSE LET sid == streams[1]
           x == mixTrack(ms, sid, track, gms)
           f == fanOut(m, 1, participantId, track, sid, snd, cl, dup, fe)
       IN IF ~x.ok
          THEN [mixedStreams |-> ms, senders |-> snd, calls |-> <<>>,
                threw |-> TRUE]
          ELSE [mixedStreams |-> x.mixedStreams, senders |-> f.senders,
                calls |-> f.calls, threw |-> f.threw]

\* SFUManager.broadcastStream from participant i, track j on; tracks =
\* stream.getTracks().  An addTrack that throws leaves both loops.
RECURSIVE broadcastFrom(_, _, _, _, _, _, _, _)
broadcastFrom(m, i, j, tracks, snd, cl, dup, fe) ==
  IF i > Len(m) THEN [senders |-> snd, calls |-> <<>>, threw |-> FALSE]
  ELSE IF j > Len(tracks)
    THEN broadcastFrom(m, i + 1, 1, tracks, snd, cl, dup, fe)
  ELSE
    LET pc == m[i].pc
        r == pcAddTrack(snd[pc], cl[pc], tracks[j], dup, fe)
        call == [id |-> m[i].id, pc |-> pc, track |-> tracks[j],
                 mixed |-> FALSE, sid |-> 0, ok |-> r.ok]
    IN IF ~r.ok
       THEN [senders |-> snd, calls |-> <<call>>, threw |-> TRUE]
       ELSE LET rest == broadcastFrom(m, i, j + 1, tracks,
                                      [snd EXCEPT ![pc] = r.senders],
                                      cl, dup, fe)
            IN [senders |-> rest.senders, calls |-> <<call>> \o rest.calls,
                threw |-> rest.threw]

broadcastStream(m, tracks, snd, cl, dup, fe) ==
  broadcastFrom(m, 1, 1, tracks, snd, cl, dup, fe)

\* -------------------------------------------------------- layer controller
\* mutant: the three layers are set only when the sender has no encodings
enableSimulcast_KeepsEncodings(ss, isClosed, track, dup, fe) ==
  LET a == pcAddTrack(ss, isClosed, track, dup, fe)
  IN IF ~a.ok THEN [ok |-> FALSE, senders |-> ss, sender |-> 0]
     ELSE [ok |-> TRUE,
           senders |-> IF a.senders[a.sender].params.has THEN a.senders
                       ELSE [a.senders EXCEPT ![a.sender].params =
                               [has |-> TRUE, encodings |-> SimulcastEncodings]],
           sender |-> a.sender]

\* SFUManager.enableSimulcast on the sender list of pc: [ok, senders, sender]
enableSimulcast(ss, isClosed, track, dup, fe) ==
  LET a == pcAddTrack(ss, isClosed, track, dup, fe)
  IN IF ~a.ok THEN [ok |-> FALSE, senders |-> ss, sender |-> 0]
     ELSE [ok |-> TRUE,
           senders |-> [a.senders EXCEPT ![a.sender].params =
                          [has |-> TRUE, encodings |-> SimulcastEncodings]],
           sender |-> a.sender]

\* SFUManager.enableSVC; an encodings list without a first element makes
\* params.encodings[0].scalabilityMode = ... a TypeError
enableSVC(ss, isClosed, track, dup, fe) ==
  LET a == pcAddTrack(ss, isClosed, track, dup, fe)
  IN IF ~a.ok THEN [ok |-> FALSE, senders |-> ss, sender |-> 0]
     ELSE LET p == a.senders[a.sender].params
              enc == IF p.has THEN p.encodings ELSE <<EmptyLayer>>
          IN IF enc = <<>>
             THEN [ok |-> FALSE, senders |-> a.senders, sender |-> a.sender]
             ELSE [ok |-> TRUE,
                   senders |-> [a.senders EXCEPT ![a.sender].params =
                     [has |-> TRUE,
                      encodings |-> [enc EXCEPT ![1].scalabilityMode = "L3T3_KEY"]]],
                   sender |-> a.sender]

Min(a, b) == IF a <= b THEN a ELSE b

\* Math.min(availableBandwidth, encoding.maxBitrate || availableBandwidth):
\* an absent maxBitrate and a maxBitrate of 0 are both falsy
clampBitrate(availableBandwidth, maxBitrate) ==
  Min(availableBandwidth,
      IF maxBitrate = Unset \/ maxBitrate = 0 THEN availableBandwidth
      ELSE maxBitrate)

\* mutant: the caps are computed from the parameters the sender had when it
\* was created and written over the current ones
adjustBitrate_FromStaleParameters(ss, availableBandwidth) ==
  [i \in 1..Len(ss) |->
     IF ss[i].params.has
     THEN [ss[i] EXCEPT !.params.encodings =
             <<[EmptyLayer EXCEPT !.maxBitrate = availableBandwidth]>>]
     ELSE ss[i]]

\* SFUManager.adjustBitrate on the sender list of pc
adjustBitrate(ss, availableBandwidth) ==
  [i \in 1..Len(ss) |->
     IF ss[i].params.has
     THEN [ss[i] EXCEPT !.params.encodings =
             [j \in 1..Len(ss[i].params.encodings) |->
                [ss[i].params.encodings[j] EXCEPT !.maxBitrate =
                   clampBitrate(availableBandwidth, @)]]]
     ELSE ss[i]]

\* ------------------------------------------------------ bandwidth estimator
\* SFUManager.estimateAvailableBandwidth.  The reports of the model keep
\* every product a whole number, so the factors 0.75, 0.85 and 0.9
\* are applied as 3/4, 17/20 and 9/10.
\* mutant: a value at a threshold is penalised too
estimateAvailableBandwidth_AtThreshold(report) ==
  LET throughput == (report.bytesSent * 8) \div report.timestamp
      a1 == IF report.packetsLost * 100 >= 5 * report.packetsSent
            THEN (throughput * 3) \div 4 ELSE throughput
      a2 == IF report.roundTripTime >= 300 THEN (a1 * 17) \div 20 ELSE a1
      a3 == IF report.jitter >= 100 THEN (a2 * 9) \div 10 ELSE a2
  IN a3

estimateAvailableBandwidth(report) ==
  LET throughput == (report.bytesSent * 8) \div report.timestamp
      a1 == IF report.packetsLost * 100 > 5 * report.packetsSent
            THEN (throughput * 3) \div 4 ELSE throughput
      a2 == IF report.roundTripTime > 300 THEN (a1 * 17) \div 20 ELSE a1
      a3 == IF report.jitter > 100 THEN (a2 * 9) \div 10 ELSE a2
  IN a3

\* the stats.forEach of one tick: adjustBitrate once per matching report
RECURSIVE applyStats(_, _, _)
applyStats(ss, stats, i) ==
  IF i > Len(stats) THEN ss
  ELSE IF stats[i].type = "outbound-rtp" /\ ~stats[i].isRemote
    THEN applyStats(adjustBitrate(ss, estimateAvailableBandwidth(stats[i])),
                    stats, i + 1)
  ELSE applyStats(ss, stats, i + 1)

\* the estimates passed to adjustBitrate by the stats.forEach of one tick,
\* in the order of the calls
RECURSIVE adjustCalls(_, _)
adjustCalls(stats, i) ==
  IF i > Len(stats) THEN <<>>
  ELSE IF stats[i].type = "outbound-rtp" /\ ~stats[i].isRemote
    THEN <<estimateAvailableBandwidth(stats[i])>> \o adjustCalls(stats, i + 1)
  ELSE adjustCalls(stats, i + 1)

Matching(stats) ==
  {i \in 1..Len(stats) : stats[i].type = "outbound-rtp" /\ ~stats[i].isRemote}

\* SFUManager.monitorNetworkConditions: one more interval timer on pc
monitorNetworkConditions(n) == n + 1

\* the part of RTCPeerConnection.addTrack after its await, on the sender
\* list and the timer count of this._pc: an exception of enableSimulcast
\* or enableSVC rejects the promise and skips what follows
addTrackResume(ss, n, isClosed, track, withStreams, dup, fe) ==
  IF ~withStreams
  THEN [ok |-> TRUE, senders |-> ss, timers |-> monitorNetworkConditions(n)]
  ELSE LET a == enableSimulcast(ss, isClosed, track, dup, fe)
       IN IF ~a.ok THEN [ok |-> FALSE, senders |-> a.senders, timers |-> n]
          ELSE LET b == enableSVC(a.senders, isClosed, track, dup, fe)
               IN IF ~b.ok
                  THEN [ok |-> FALSE, senders |-> b.senders, timers |-> n]
                  ELSE [ok |-> TRUE, senders |-> b.senders,
                        timers |-> monitorNetworkConditions(n)]

\* ----------------------------------------------------------------- actions
Init ==
  /\ participants = <<>>
  /\ mixedStreams = <<>>
  /\ ontrack = [c \in Conns |-> 0]
  /\ closed = [c \in Conns |-> FALSE]
  /\ senders = [c \in Conns |-> <<>>]
  /\ timers = [c \in Conns |-> 0]
  /\ awaiting = [c \in Conns |-> 0]
  /\ pending = <<>>
  /\ dupPolicy \in {"new", "reuse", "throw"}
  /\ freshEncodings \in BOOLEAN
  /\ globalMediaStream \in BOOLEAN
  /\ lastOp = NoOp

\* the runs in which handleTrack takes no part start with one runtime
InitNoMixer == Init /\ ~globalMediaStream

MapValues(m) == {m[i].pc : i \in 1..Len(m)}

SeqRange(q) == {q[i] : i \in 1..Len(q)}

\* lastOp.old: the connection that this addParticipant replaced, 0 if none
\* mutant: a joining participant is sent a track of the mixed streams
AddParticipant_ReplaysMixedStreams(id, c) ==
  LET r == addParticipant(participants, ontrack, id, c)
      o == IF MapHas(participants, id) THEN MapGet(participants, id) ELSE 0
      mixed == UNION {mixedStreams[s] : s \in DOMAIN mixedStreams}
  IN /\ participants' = r.participants
     /\ ontrack' = r.ontrack
     /\ closed' = [d \in Conns |-> closed[d] \/ d \in SeqRange(r.closes)]
     /\ senders' = IF mixed = {} THEN senders
                   ELSE [senders EXCEPT ![c] =
                           pcAddTrack(@, closed[c], CHOOSE t \in mixed : TRUE,
                                      dupPolicy, freshEncodings).senders]
     /\ lastOp' = [NoOp EXCEPT !.op = "addParticipant", !.id = id, !.pc = c,
                               !.closes = r.closes, !.old = o]
     /\ UNCHANGED <<mixedStreams, timers, awaiting, pending,
                    dupPolicy, freshEncodings, globalMediaStream>>

AddParticipant(id, c) ==
  LET r == addParticipant(participants, ontrack, id, c)
      o == IF MapHas(participants, id) THEN MapGet(participants, id) ELSE 0
  IN /\ participants' = r.participants
     /\ ontrack' = r.ontrack
     /\ closed' = [d \in Conns |-> closed[d] \/ d \in SeqRange(r.closes)]
     /\ lastOp' = [NoOp EXCEPT !.op = "addParticipant", !.id = id, !.pc = c,
                               !.closes = r.closes, !.old = o]
     /\ UNCHANGED <<mixedStreams, senders, timers, awaiting, pending,
                    dupPolicy, freshEncodings, globalMediaStream>>

\* mutant: removing a participant cancels the timers of its connection
RemoveParticipant_StopsLoop(id) ==
  LET r == removeParticipant(participants, id)
  IN /\ participants' = r.participants
     /\ closed' = [d \in Conns |-> closed[d] \/ d \in SeqRange(r.closes)]
     /\ timers' = [d \in Conns |->
                     IF d \in SeqRange(r.closes) THEN 0 ELSE timers[d]]
     /\ lastOp' = [NoOp EXCEPT !.op = "removeParticipant", !.id = id,
                               !.closes = r.closes, !.threw = r.threw]
     /\ UNCHANGED <<mixedStreams, ontrack, senders, awaiting, pending,
                    dupPolicy, freshEncodings, globalMediaStream>>

RemoveParticipant(id) ==
  LET r == removeParticipant(participants, id)
  IN /\ participants' = r.participants
     /\ closed' = [d \in Conns |-> closed[d] \/ d \in SeqRange(r.closes)]
     /\ lastOp' = [NoOp EXCEPT !.op = "removeParticipant", !.id = id,
                               !.closes = r.closes, !.threw = r.threw]
     /\ UNCHANGED <<mixedStreams, ontrack, senders, timers, awaiting, pending,
                    dupPolicy, freshEncodings, globalMediaStream>>

\* the transport delivers a track event to the ontrack callback of c
OnTrack(c, track, streams) ==
  /\ ontrack[c] # 0
  /\ LET r == handleTrack(participants, mixedStreams, senders, closed,
                          ontrack[c], track, streams, dupPolicy,
                          freshEncodings, globalMediaStream)
     IN /\ \A d \in Conns : Len(r.senders[d]) <= MaxSenders
        /\ mixedStreams' = r.mixedStreams
        /\ senders' = r.senders
        /\ lastOp' = [NoOp EXCEPT !.op = "handleTrack", !.id = ontrack[c],
                                  !.pc = c, !.track = track,
                                  !.streams = streams, !.threw = r.threw,
                                  !.calls = r.calls]
  /\ UNCHANGED <<participants, ontrack, closed, timers, awaiting, pending,
                 dupPolicy, freshEncodings, globalMediaStream>>

\* the tracks of a stream: sequences of distinct tracks
StreamTracks ==
  UNION { {q \in [1..n -> Tracks] : \A a, b \in 1..n : q[a] = q[b] => a = b} :
          n \in 0..NTracks }

BroadcastStream(tracks) ==
  LET r == broadcastStream(participants, tracks, senders, closed, dupPolicy,
                           freshEncodings)
  IN /\ \A d \in Conns : Len(r.senders[d]) <= MaxSenders
     /\ senders' = r.senders
     /\ lastOp' = [NoOp EXCEPT !.op = "broadcastStream", !.tracks = tracks,
                               !.threw = r.threw, !.calls = r.calls]
     /\ UNCHANGED <<participants, mixedStreams, ontrack, closed, timers,
                    awaiting, pending, dupPolicy, freshEncodings, globalMediaStream>>

\* the owner of a connection closes it (RTCPeerConnection.close)
Close(c) ==
  /\ closed' = [closed EXCEPT ![c] = TRUE]
  /\ lastOp' = [NoOp EXCEPT !.op = "close", !.pc = c, !.closes = <<c>>]
  /\ UNCHANGED <<participants, mixedStreams, ontrack, senders, timers,
                 awaiting, pending, dupPolicy, freshEncodings, globalMediaStream>>

\* -------------------------------------------------- layer controller actions
Bandwidths == {0, 150000}

EnableSimulcast(c, track) ==
  LET r == enableSimulcast(senders[c], closed[c], track, dupPolicy,
                           freshEncodings)
      a == pcAddTrack(senders[c], closed[c], track, dupPolicy, freshEncodings)
  IN /\ Len(r.senders) <= MaxSenders
     /\ senders' = [senders EXCEPT ![c] = r.senders]
     /\ lastOp' = [NoOp EXCEPT !.op = "enableSimulcast", !.pc = c,
                               !.track = track, !.sender = r.sender,
                               !.prior = IF a.ok
                                         THEN a.senders[a.sender].params
                                         ELSE NoEncodings,
                               !.threw = ~r.ok]
     /\ UNCHANGED <<participants, mixedStreams, ontrack, closed, timers,
                    awaiting, pending, dupPolicy, freshEncodings, globalMediaStream>>

EnableSVC(c, track) ==
  LET r == enableSVC(senders[c], closed[c], track, dupPolicy, freshEncodings)
      a == pcAddTrack(senders[c], closed[c], track, dupPolicy, freshEncodings)
  IN /\ Len(r.senders) <= MaxSenders
     /\ senders' = [senders EXCEPT ![c] = r.senders]
     /\ lastOp' = [NoOp EXCEPT !.op = "enableSVC", !.pc = c, !.track = track,
                               !.sender = r.sender,
                               !.prior = IF a.ok
                                         THEN a.senders[a.sender].params
                                         ELSE NoEncodings,
                               !.threw = ~r.ok]
     /\ UNCHANGED <<participants, mixedStreams, ontrack, closed, timers,
                    awaiting, pending, dupPolicy, freshEncodings, globalMediaStream>>

\* fails: getSenders or setParameters of a closed connection throws
AdjustBitrate(c, bw, fails) ==
  /\ fails => closed[c]
  /\ senders' = IF fails THEN senders
                ELSE [senders EXCEPT ![c] = adjustBitrate(senders[c], bw)]
  /\ lastOp' = [NoOp EXCEPT !.op = "adjustBitrate", !.pc = c, !.bw = bw,
                            !.threw = fails]
  /\ UNCHANGED <<participants, mixedStreams, ontrack, closed, timers,
                 awaiting, pending, dupPolicy, freshEncodings, globalMediaStream>>

MonitorNetworkConditions(c) ==
  /\ timers[c] < MaxTimers
  /\ timers' = [timers EXCEPT ![c] = monitorNetworkConditions(@)]
  /\ lastOp' = [NoOp EXCEPT !.op = "monitorNetworkConditions", !.pc = c]
  /\ UNCHANGED <<participants, mixedStreams, ontrack, closed, senders,
                 awaiting, pending, dupPolicy, freshEncodings, globalMediaStream>>

\* RTCPeerConnection.addTrack up to its await: this._pc.addTrack(track,
\* ...streams); an exception rejects the returned promise
AddTrack(c, track, withStreams) ==
  LET r == pcAddTrack(senders[c], closed[c], track, dupPolicy, freshEncodings)
  IN /\ Len(pending) < MaxPending
     /\ Len(r.senders) <= MaxSenders
     /\ senders' = [senders EXCEPT ![c] = r.senders]
     /\ pending' = IF r.ok
                   THEN Append(pending, [pc |-> c, track |-> track,
                                         withStreams |-> withStreams])
                   ELSE pending
     /\ lastOp' = [NoOp EXCEPT !.op = "addTrack", !.pc = c, !.track = track,
                               !.streams = IF withStreams THEN <<0>> ELSE <<>>,
                               !.sender = r.sender, !.threw = ~r.ok]
     /\ UNCHANGED <<participants, mixedStreams, ontrack, closed, timers,
                    awaiting, dupPolicy, freshEncodings, globalMediaStream>>

\* RTCPeerConnection.removeTrack(sender) for the i-th sender of c
RemoveTrack(c, i) ==
  LET r == pcRemoveTrack(senders[c], closed[c], i)
  IN /\ i \in 1..Len(senders[c])
     /\ senders' = [senders EXCEPT ![c] = r.senders]
     /\ lastOp' = [NoOp EXCEPT !.op = "removeTrack", !.pc = c, !.sender = i,
                               !.threw = ~r.ok]
     /\ UNCHANGED <<participants, mixedStreams, ontrack, closed, timers,
                    awaiting, pending, dupPolicy, freshEncodings,
                    globalMediaStream>>

\* the continuation of the oldest suspended RTCPeerConnection.addTrack
AddTrackResume ==
  /\ pending # <<>>
  /\ LET h == Head(pending)
         r == addTrackResume(senders[h.pc], timers[h.pc], closed[h.pc],
                             h.track, h.withStreams, dupPolicy, freshEncodings)
     IN /\ Len(r.senders) <= MaxSenders
        /\ r.timers <= MaxTimers
        /\ senders' = [senders EXCEPT ![h.pc] = r.senders]
        /\ timers' = [timers EXCEPT ![h.pc] = r.timers]
        /\ lastOp' = [NoOp EXCEPT !.op = "addTrackResume", !.pc = h.pc,
                                  !.track = h.track,
                                  !.streams = IF h.withStreams THEN <<0>>
                                              ELSE <<>>,
                                  !.threw = ~r.ok]
  /\ pending' = Tail(pending)
  /\ UNCHANGED <<participants, mixedStreams, ontrack, closed, awaiting,
                 dupPolicy, freshEncodings, globalMediaStream>>

\* ----------------------------------------------------------- adaptation loop
Report(type, isRemote, bytesSent) ==
  [type |-> type, isRemote |-> isRemote, bytesSent |-> bytesSent,
   timestamp |-> 1, packetsLost |-> 0, packetsSent |-> 1000,
   roundTripTime |-> 100, jitter |-> 10]

Reports ==
  { Report("outbound-rtp", FALSE, 18750), Report("outbound-rtp", FALSE, 0),
    Report("outbound-rtp", TRUE, 18750), Report("inbound-rtp", FALSE, 18750) }

MaxReports == 2

StatsReports ==
  UNION {[1..n -> Reports] : n \in 0..MaxReports}

\* the statistics of a tick with at most one report
FrameStats == {st \in StatsReports : Len(st) <= 1}

\* a timer of c fires and the callback runs up to `await pc.getStats()`;
\* rejects: the statistics request of a closed connection fails, and the
\* promise of the callback is rejected with nothing to handle it
TickFetch(c, rejects) ==
  /\ timers[c] > 0
  /\ rejects => closed[c]
  /\ ~rejects => awaiting[c] < MaxAwaiting
  /\ awaiting' = IF rejects THEN awaiting
                 ELSE [awaiting EXCEPT ![c] = @ + 1]
  /\ lastOp' = [NoOp EXCEPT !.op = "tickFetch", !.pc = c, !.threw = rejects]
  /\ UNCHANGED <<participants, mixedStreams, ontrack, closed, senders, timers,
                 pending, dupPolicy, freshEncodings, globalMediaStream>>

\* mutant: the tick adjusts the senders of every connection
TickApply_EveryConnection(c, stats, fails) ==
  /\ awaiting[c] > 0
  /\ fails => closed[c] /\ Matching(stats) # {}
  /\ awaiting' = [awaiting EXCEPT ![c] = @ - 1]
  /\ senders' = IF fails THEN senders
                ELSE [d \in Conns |-> applyStats(senders[d], stats, 1)]
  /\ lastOp' = [NoOp EXCEPT !.op = "tickApply", !.pc = c, !.stats = stats,
                            !.calls = IF fails
                                      THEN <<Head(adjustCalls(stats, 1))>>
                                      ELSE adjustCalls(stats, 1),
                            !.before = senders[c],
                            !.threw = fails]
  /\ UNCHANGED <<participants, mixedStreams, ontrack, closed, timers, pending,
                 dupPolicy, freshEncodings, globalMediaStream>>

\* the statistics arrive and the callback runs to its end; fails: the
\* connection was closed and adjustBitrate throws at its first report
TickApply(c, stats, fails) ==
  /\ awaiting[c] > 0
  /\ fails => closed[c] /\ Matching(stats) # {}
  /\ awaiting' = [awaiting EXCEPT ![c] = @ - 1]
  /\ senders' = IF fails THEN senders
                ELSE [senders EXCEPT ![c] = applyStats(senders[c], stats, 1)]
  /\ lastOp' = [NoOp EXCEPT !.op = "tickApply", !.pc = c, !.stats = stats,
                            !.calls = IF fails
                                      THEN <<Head(adjustCalls(stats, 1))>>
                                      ELSE adjustCalls(stats, 1),
                            !.before = senders[c],
                            !.threw = fails]
  /\ UNCHANGED <<participants, mixedStreams, ontrack, closed, timers, pending,
                 dupPolicy, freshEncodings, globalMediaStream>>

EventStreams == {<<>>} \cup {<<s>> : s \in StreamIds}

\* The registry and the mixer with any identifier of RegIds registered
\* with any connection of RegConns: duplicate identifiers and one
\* connection under several identifiers included.
RegIds == 1..NReg

RegConns == 1..NReg

NextRegistry ==
  \/ \E id \in RegIds, c \in RegConns : AddParticipant(id, c)
  \/ \E id \in RegIds : RemoveParticipant(id)
  \/ \E c \in RegConns, t \in Tracks, ss \in EventStreams : OnTrack(c, t, ss)
  \/ \E c \in RegConns : Close(c)

SpecRegistry == Init /\ [][NextRegistry]_vars

\* The registry and the mixer with every participant on a connection of
\* its own: participant i joins (and joins again) with connection i.
NextMixer ==
  \/ \E i \in Ids \cap Conns : AddParticipant(i, i)
  \/ \E id \in Ids : RemoveParticipant(id)
  \/ \E c \in Conns, t \in Tracks, ss \in EventStreams : OnTrack(c, t, ss)
  \/ \E tracks \in StreamTracks : BroadcastStream(tracks)
  \/ \E c \in Conns : Close(c)

SpecMixer == Init /\ [][NextMixer]_vars

\* The adaptation loop and the wrapper of RTCPeerConnection on the
\* connections of FullConns: addTrack (which runs enableSimulcast and
\* enableSVC after its await), removeTrack and close interleave with the
\* two halves of the ticks, which may overlap, and with the registry; the
\* statistics of a tick hold at most one report (several are in SpecTick).
FullConns == 1..NFull

AdaptConns == 1..NAdapt

NextAdapt ==
  \/ \E c \in FullConns : MonitorNetworkConditions(c)
  \/ \E c \in FullConns, f \in BOOLEAN : TickFetch(c, f)
  \/ \E c \in FullConns, st \in FrameStats, f \in BOOLEAN :
        TickApply(c, st, f)
  \/ \E c \in FullConns : Close(c)
  \/ \E c \in FullConns, t \in Tracks, w \in BOOLEAN : AddTrack(c, t, w)
  \/ AddTrackResume
  \/ \E c \in FullConns, i \in 1..MaxSenders : RemoveTrack(c, i)
  \/ \E c \in FullConns : AddParticipant(c, c)
  \/ \E c \in FullConns : RemoveParticipant(c)

SpecAdapt == InitNoMixer /\ [][NextAdapt]_vars

\* The ticks of the connections of FullConns with statistics of up to
\* MaxReports reports, on senders configured by enableSimulcast and
\* enableSVC and adjusted by direct adjustBitrate calls; ticks may overlap
\* and the connections may be closed.
NextTick ==
  \/ \E c \in FullConns, t \in Tracks : EnableSimulcast(c, t)
  \/ \E c \in FullConns, t \in Tracks : EnableSVC(c, t)
  \/ \E c \in FullConns, bw \in Bandwidths, f \in BOOLEAN :
        AdjustBitrate(c, bw, f)
  \/ \E c \in FullConns : MonitorNetworkConditions(c)
  \/ \E c \in FullConns, f \in BOOLEAN : TickFetch(c, f)
  \/ \E c \in FullConns, st \in StatsReports, f \in BOOLEAN :
        TickApply(c, st, f)
  \/ \E c \in FullConns : Close(c)

SpecTick == InitNoMixer /\ [][NextTick]_vars

\* The layer controller called directly on the connections of FullConns,
\* whose tracks are removed (and added again) in between.
NextLayers ==
  \/ \E c \in FullConns, t \in Tracks : EnableSimulcast(c, t)
  \/ \E c \in FullConns, t \in Tracks : EnableSVC(c, t)
  \/ \E c \in FullConns, bw \in Bandwidths, f \in BOOLEAN :
        AdjustBitrate(c, bw, f)
  \/ \E c \in FullConns, i \in 1..MaxSenders : RemoveTrack(c, i)
  \/ \E c \in FullConns : Close(c)

SpecLayers == InitNoMixer /\ [][NextLayers]_vars

\* Several registered connections with senders of their own (the tracks
\* the mixer forwarded to them) and an adaptation loop each, whose ticks
\* interleave with each other and with direct adjustBitrate calls; no
\* connection is closed here, so that no call fails.
NextFrame ==
  \/ \E c \in AdaptConns : AddParticipant(c, c)
  \/ \E c \in AdaptConns, t \in Tracks, ss \in EventStreams : OnTrack(c, t, ss)
  \/ \E c \in AdaptConns, bw \in Bandwidths, f \in BOOLEAN :
        AdjustBitrate(c, bw, f)
  \/ \E c \in AdaptConns : MonitorNetworkConditions(c)
  \/ \E c \in AdaptConns, f \in BOOLEAN : TickFetch(c, f)
  \/ \E c \in AdaptConns, st \in FrameStats, f \in BOOLEAN :
        TickApply(c, st, f)

SpecFrame == Init /\ [][NextFrame]_vars

\* The mixed streams: the participants of RegConns, each on a connection of
\* its own, join and leave, and the participant of MixSources sends several
\* tracks tagged with several origin streams.
NMixTracks == 2

NMixStreams == 2

MixTracks == 1..NMixTracks

MixSources == {1}

MixEventStreams == {<<>>} \cup {<<s>> : s \in 1..NMixStreams}

NextStreams ==
  \/ \E c \in RegConns : AddParticipant(c, c)
  \/ \E c \in RegConns : RemoveParticipant(c)
  \/ \E c \in MixSources, t \in MixTracks, ss \in MixEventStreams :
        OnTrack(c, t, ss)

SpecStreams == Init /\ [][NextStreams]_vars

\* The layer controller and the adaptation loop on the same senders: the
\* external calls enableSimulcast, enableSVC, adjustBitrate and removeTrack
\* on the connections of FullConns interleave with the two halves of their
\* ticks.
NextAtomic ==
  \/ \E c \in FullConns, t \in Tracks : EnableSimulcast(c, t)
  \/ \E c \in FullConns, t \in Tracks : EnableSVC(c, t)
  \/ \E c \in FullConns, bw \in Bandwidths, f \in BOOLEAN :
        AdjustBitrate(c, bw, f)
  \/ \E c \in FullConns : MonitorNetworkConditions(c)
  \/ \E c \in FullConns, f \in BOOLEAN : TickFetch(c, f)
  \/ \E c \in FullConns, st \in FrameStats, f \in BOOLEAN :
        TickApply(c, st, f)
  \/ \E c \in FullConns, i \in 1..MaxSenders : RemoveTrack(c, i)
  \/ \E c \in FullConns : Close(c)

SpecAtomic == InitNoMixer /\ [][NextAtomic]_vars

\* Late joiners: the participants of RegConns join at any time, each on a
\* connection of its own, while the participant of MixSources sends several
\* tracks of one origin stream and streams of these tracks are broadcast.
MixStreamTracks ==
  UNION { {q \in [1..n -> MixTracks] : \A a, b \in 1..n : q[a] = q[b] => a = b} :
          n \in 0..NMixTracks }

NextJoin ==
  \/ \E c \in RegConns : AddParticipant(c, c)
  \/ \E c \in MixSources, t \in MixTracks, ss \in EventStreams :
        OnTrack(c, t, ss)
  \/ \E tracks \in MixStreamTracks : BroadcastStream(tracks)

SpecJoin == Init /\ [][NextJoin]_vars

\* The bandwidth estimator alone: the initial state draws a report, with
\* values below, at and above each threshold, and the estimator is applied
\* to it; lastOp.stats holds the report and lastOp.bw the estimate.
EstimatorReports ==
  { [type |-> "outbound-rtp", isRemote |-> FALSE, bytesSent |-> b,
     timestamp |-> ts, packetsLost |-> pl, packetsSent |-> ps,
     roundTripTime |-> rtt, jitter |-> j] :
       b \in {0, 125000}, ts \in {1, 2}, pl \in {0, 50, 51, 60},
       ps \in {0, 1000}, rtt \in {100, 300, 301, 350},
       j \in {10, 100, 101, 150} }

InitEstimator ==
  /\ participants = <<>>
  /\ mixedStreams = <<>>
  /\ ontrack = [c \in Conns |-> 0]
  /\ closed = [c \in Conns |-> FALSE]
  /\ senders = [c \in Conns |-> <<>>]
  /\ timers = [c \in Conns |-> 0]
  /\ awaiting = [c \in Conns |-> 0]
  /\ pending = <<>>
  /\ dupPolicy = "new"
  /\ freshEncodings = TRUE
  /\ globalMediaStream = FALSE
  /\ \E r \in EstimatorReports : lastOp = [NoOp EXCEPT !.stats = <<r>>]

EstimateAvailableBandwidth ==
  /\ lastOp.op = "init"
  /\ lastOp' = [lastOp EXCEPT !.op = "estimateAvailableBandwidth",
                              !.bw = estimateAvailableBandwidth(lastOp.stats[1])]
  /\ UNCHANGED <<participants, mixedStreams, ontrack, closed, senders, timers,
                 awaiting, pending, dupPolicy, freshEncodings, globalMediaStream>>

NextEstimator == EstimateAvailableBandwidth

SpecEstimator == InitEstimator /\ [][NextEstimator]_vars

\* ------------------------------------------------------------------ claims
CallsTo(id) ==
  {k \in 1..Len(lastOp.calls) :
     /\ lastOp.calls[k].id = id
     /\ lastOp.calls[k].track = lastOp.track
     /\ lastOp.calls[k].mixed
     /\ lastOp.calls[k].sid = lastOp.streams[1]}

\* C1: addParticipant(id, c) followed by removeParticipant(id) leaves the
\* registry without id and invokes c.close exactly once; a further
\* removeParticipant(id) leaves id absent and invokes close on nothing.
C1_AddThenRemoveClosesOnce ==
  [][ /\ ( /\ lastOp.op = "addParticipant"
           /\ lastOp'.op = "removeParticipant"
           /\ lastOp'.id = lastOp.id )
         => ( /\ ~MapHas(participants', lastOp.id)
              /\ lastOp'.closes = <<lastOp.pc>>
              /\ closed'[lastOp.pc] )
      /\ ( /\ lastOp.op = "removeParticipant"
           /\ lastOp'.op = "removeParticipant"
           /\ lastOp'.id = lastOp.id )
         => ( /\ ~MapHas(participants', lastOp.id)
              /\ lastOp'.closes = <<>> ) ]_vars

\* a removeParticipant that found its participant, closed the connection
\* and left the registry without the identifier
C1_Witness ==
  /\ lastOp.op = "removeParticipant"
  /\ Len(lastOp.closes) = 1
  /\ closed[lastOp.closes[1]]
  /\ ontrack[lastOp.closes[1]] = lastOp.id
  /\ ~MapHas(participants, lastOp.id)

\* C2: after handleTrack for a track of participant p tagged with stream S,
\* every registered participant other than p has received exactly one
\* addTrack of the track bound to the mixed stream of S, and p none.
C2_EveryOtherParticipantGetsTrackOnce ==
  (lastOp.op = "handleTrack" /\ lastOp.streams # <<>>) =>
    \A i \in 1..Len(participants) :
      IF participants[i].id = lastOp.id
      THEN CallsTo(participants[i].id) = {}
      ELSE Cardinality(CallsTo(participants[i].id)) = 1

\* C3: when one target's addTrack fails during the fan-out of handleTrack,
\* every other registered participant except the originator still receives
\* its addTrack call.
C3_FailingTargetDoesNotAbortFanOut ==
  ( /\ lastOp.op = "handleTrack"
    /\ lastOp.streams # <<>>
    /\ \E k \in 1..Len(lastOp.calls) : ~lastOp.calls[k].ok ) =>
    \A i \in 1..Len(participants) :
      participants[i].id # lastOp.id => CallsTo(participants[i].id) # {}

\* C4: an adaptation tick never ends in an unhandled failure, also when its
\* connection is closed before the tick or between its statistics request
\* and its parameter update.
C4_TickNeverRaisesUnhandledFailure ==
  lastOp.op \in {"tickFetch", "tickApply"} => ~lastOp.threw

\* C5: adjustBitrate(conn, B) leaves no layer's maxBitrate above a pre-call
\* value that was set (0 included) and sets an unset maxBitrate to B.
C5_AdjustNeverRaisesSetCap ==
  [][ (lastOp'.op = "adjustBitrate" /\ ~lastOp'.threw) =>
        \A i \in 1..Len(senders[lastOp'.pc]) :
          \A j \in 1..Len(senders[lastOp'.pc][i].params.encodings) :
            LET pre == senders[lastOp'.pc][i].params.encodings[j].maxBitrate
                post == senders'[lastOp'.pc][i].params.encodings[j].maxBitrate
            IN senders[lastOp'.pc][i].params.has =>
                 /\ pre # Unset => post <= pre
                 /\ pre = Unset => post = lastOp'.bw ]_vars

\* C6: a connection never has more than one adaptation timer running,
\* however many tracks RTCPeerConnection.addTrack has added to it.
C6_AtMostOneTimerPerConnection ==
  \A c \in Conns : timers[c] <= 1

\* C7: an adaptation loop that has been started is never stopped: no
\* operation (removeParticipant, close, a layer update, a failed tick)
\* takes a timer away from a connection.
C7_LoopNeverStops ==
  [][ \A c \in Conns : timers'[c] >= timers[c] ]_vars

\* a tick fired on a connection whose participant has been removed and
\* whose connection is closed, and its loop is still running
C7_Witness ==
  /\ lastOp.op = "tickFetch"
  /\ timers[lastOp.pc] >= 1
  /\ closed[lastOp.pc]
  /\ ontrack[lastOp.pc] # 0
  /\ ~MapHas(participants, ontrack[lastOp.pc])

\* C8: removeParticipant(id) for an unregistered id raises no error,
\* closes no connection and leaves the registry, the mixed streams, the
\* closed connections and every sender unchanged.
C8_RemoveAbsentIsNoOp ==
  [][ (lastOp'.op = "removeParticipant" /\ ~MapHas(participants, lastOp'.id)) =>
        /\ ~lastOp'.threw
        /\ lastOp'.closes = <<>>
        /\ UNCHANGED <<participants, mixedStreams, closed, senders, ontrack,
                       timers>> ]_vars

\* removeParticipant ran for an unregistered id while the registry, the
\* mixed streams and the senders were not empty
C8_Witness ==
  /\ lastOp.op = "removeParticipant"
  /\ lastOp.closes = <<>>
  /\ ~MapHas(participants, lastOp.id)
  /\ participants # <<>>
  /\ DOMAIN mixedStreams # {}
  /\ \E c \in Conns : senders[c] # <<>>

\* C9 as stated: the registry has one entry per identifier, a duplicate
\* addParticipant(id, c2) replaces id -> c1 by id -> c2 without closing
\* c1, and a removeParticipant that follows never closes c1.
C9_ReplacedConnectionNeverClosed ==
  [][ ( /\ lastOp.op = "addParticipant"
        /\ lastOp.old # 0
        /\ lastOp'.op = "removeParticipant" )
      => lastOp.old \notin SeqRange(lastOp'.closes) ]_vars

\* C9 amended: the registry has one entry per identifier; a duplicate
\* addParticipant(id, c2) replaces id -> c1 by id -> c2 and closes nothing;
\* removeParticipant closes only the connection registered under the
\* removed id, so c1 is never closed by it while c1 is not registered.
C9_ReplaceKeepsOldOpen ==
  [][ /\ \A i, j \in 1..Len(participants') :
           participants'[i].id = participants'[j].id => i = j
      /\ lastOp'.op = "addParticipant" =>
           /\ MapGet(participants', lastOp'.id) = lastOp'.pc
           /\ Len(participants') =
                Len(participants) + (IF lastOp'.old = 0 THEN 1 ELSE 0)
           /\ lastOp'.closes = <<>>
           /\ closed' = closed
      /\ lastOp'.op = "removeParticipant" =>
           \A c \in Conns :
             c \in SeqRange(lastOp'.closes) =>
               /\ MapHas(participants, lastOp'.id)
               /\ MapGet(participants, lastOp'.id) = c ]_vars

\* a duplicate addParticipant replaced an open connection, which is now in
\* no entry of the registry and still open
C9_Witness ==
  /\ lastOp.op = "addParticipant"
  /\ lastOp.old # 0
  /\ lastOp.old # lastOp.pc
  /\ lastOp.old \notin MapValues(participants)
  /\ ~closed[lastOp.old]

\* C10: after enableSimulcast the sender of the track has exactly the three
\* layers f, h, q with caps 500000, 200000, 100000 and downscale factors
\* none, 2, 4, whatever its encodings were before.
C10_SimulcastLayers ==
  (lastOp.op = "enableSimulcast" /\ ~lastOp.threw) =>
    LET p == senders[lastOp.pc][lastOp.sender].params
    IN /\ p.has
       /\ Len(p.encodings) = 3
       /\ p.encodings[1].rid = "f" /\ p.encodings[1].maxBitrate = 500000
       /\ p.encodings[1].scaleResolutionDownBy = Unset
       /\ p.encodings[2].rid = "h" /\ p.encodings[2].maxBitrate = 200000
       /\ p.encodings[2].scaleResolutionDownBy = 2
       /\ p.encodings[3].rid = "q" /\ p.encodings[3].maxBitrate = 100000
       /\ p.encodings[3].scaleResolutionDownBy = 4

\* enableSimulcast ran on a sender that already had layers with other caps
C10_Witness ==
  /\ lastOp.op = "enableSimulcast"
  /\ ~lastOp.threw
  /\ lastOp.prior.has
  /\ Len(lastOp.prior.encodings) = 3
  /\ lastOp.prior.encodings[1].maxBitrate # 500000

\* the report whose estimate lastOp.bw is
EstimatedReport == lastOp.stats[1]

\* the loss ratio packetsLost / packetsSent of a report is above 5%
\* (a division by zero gives Infinity, above 5%, or NaN, above nothing)
LossAbove5Percent(r) == r.packetsLost * 100 > 5 * r.packetsSent

\* C11: the estimate is bytesSent*8/timestamp times 0.75 iff the loss ratio
\* is strictly above 5%, times 0.85 iff roundTripTime is strictly above 300
\* and times 0.9 iff jitter is strictly above 100, independently; 125000
\* bytes at timestamp 1 give 1000000 with no penalty and 573750 with all
\* three, and a value exactly at its threshold brings no penalty.
C11_EstimatePenalties ==
  lastOp.op = "estimateAvailableBandwidth" =>
    LET r == EstimatedReport
        loss == LossAbove5Percent(r)
        rtt == r.roundTripTime > 300
        jit == r.jitter > 100
    IN /\ lastOp.bw * r.timestamp * 4 * 20 * 10 =
            r.bytesSent * 8 * (IF loss THEN 3 ELSE 4)
              * (IF rtt THEN 17 ELSE 20) * (IF jit THEN 9 ELSE 10)
       /\ (r.bytesSent = 125000 /\ r.timestamp = 1 /\ ~loss /\ ~rtt /\ ~jit)
            => lastOp.bw = 1000000
       /\ (r.bytesSent = 125000 /\ r.timestamp = 1 /\ loss /\ rtt /\ jit)
            => lastOp.bw = 573750
       /\ (r.packetsLost = 50 /\ r.packetsSent = 1000
             /\ r.roundTripTime = 300 /\ r.jitter = 100)
            => lastOp.bw * r.timestamp = r.bytesSent * 8

\* the estimate of a report exactly at the three thresholds, with traffic
C11_Witness ==
  /\ lastOp.op = "estimateAvailableBandwidth"
  /\ EstimatedReport.bytesSent = 125000
  /\ EstimatedReport.timestamp = 1
  /\ EstimatedReport.packetsLost = 50
  /\ EstimatedReport.packetsSent = 1000
  /\ EstimatedReport.roundTripTime = 300
  /\ EstimatedReport.jitter = 100
  /\ lastOp.bw = 1000000

\* C12: broadcastStream(stream) invokes addTrack once for every track of
\* the stream on every participant registered at the call, none excluded,
\* and leaves the registry and the mixed streams unchanged.
C12_BroadcastReachesEveryParticipant ==
  [][ lastOp'.op = "broadcastStream" =>
        /\ \A i \in 1..Len(participants) :
             \A j \in 1..Len(lastOp'.tracks) :
               Cardinality({k \in 1..Len(lastOp'.calls) :
                  /\ lastOp'.calls[k].id = participants[i].id
                  /\ lastOp'.calls[k].track = lastOp'.tracks[j]}) = 1
        /\ UNCHANGED <<participants, mixedStreams>> ]_vars

\* C13: enableSimulcast, enableSVC or adjustBitrate applied a second time
\* in a row with the same arguments leaves the senders of the connection
\* and their encoding layers as the first application left them.
C13_LayerCallsIdempotent ==
  [][ ( /\ lastOp.op \in {"enableSimulcast", "enableSVC", "adjustBitrate"}
        /\ ~lastOp.threw
        /\ lastOp'.op = lastOp.op
        /\ lastOp'.pc = lastOp.pc
        /\ lastOp'.track = lastOp.track
        /\ lastOp'.bw = lastOp.bw )
      => senders'[lastOp.pc] = senders[lastOp.pc] ]_vars

\* the encodings of a sender are the three simulcast layers f, h, q
HasSimulcastLayers(p) ==
  /\ p.has
  /\ Len(p.encodings) = 3
  /\ p.encodings[1].rid = "f"
  /\ p.encodings[2].rid = "h"
  /\ p.encodings[3].rid = "q"

\* C14: no sender ever has the three simulcast layers and a scalabilityMode
\* on its first layer at once, in particular not after
\* RTCPeerConnection.addTrack with a stream, which runs enableSimulcast and
\* then enableSVC for the same track.
C14_SimulcastOrSVCNotBoth ==
  \A c \in Conns : \A i \in 1..Len(senders[c]) :
    HasSimulcastLayers(senders[c][i].params) =>
      senders[c][i].params.encodings[1].scalabilityMode = EmptyLayer.scalabilityMode

\* C15: on a sender configured by enableSimulcast the caps of the layers
\* f, h, q never exceed 500000, 200000 and 100000, whatever adjustBitrate
\* calls and estimates (0 followed by larger ones included) come after.
C15_CapsWithinCeilings ==
  \A c \in Conns : \A i \in 1..Len(senders[c]) :
    HasSimulcastLayers(senders[c][i].params) =>
      /\ senders[c][i].params.encodings[1].maxBitrate <= 500000
      /\ senders[c][i].params.encodings[2].maxBitrate <= 200000
      /\ senders[c][i].params.encodings[3].maxBitrate <= 100000

\* C16: RTCPeerConnection.addTrack(track) with no stream starts no
\* adaptation timer and configures neither simulcast nor SVC: completing
\* such a call leaves the timers and the senders as they were.
C16_NoStreamStartsNoLoop ==
  [][ (lastOp'.op = "addTrackResume" /\ lastOp'.streams = <<>>) =>
        /\ timers' = timers
        /\ senders' = senders ]_vars

RECURSIVE MinOf(_, _)
\* the minimum of cap and the numbers of the sequence q
MinOf(cap, q) ==
  IF q = <<>> THEN cap ELSE MinOf(Min(cap, Head(q)), Tail(q))

\* C17: a tick that runs to its end invokes adjustBitrate once per
\* outbound-rtp, non-remote report of its statistics, with the estimate of
\* that report; with no such report nothing is invoked and the senders are
\* unchanged; with several, every cap that was set ends at the minimum of
\* its prior value and all those estimates.
C17_TickAdjustsOncePerMatchingReport ==
  [][ (lastOp'.op = "tickApply" /\ ~lastOp'.threw) =>
        LET st == lastOp'.stats
            c == lastOp'.pc
        IN /\ Len(lastOp'.calls) = Cardinality(Matching(st))
           /\ \A k \in 1..Len(lastOp'.calls) :
                \E i \in Matching(st) :
                  /\ Cardinality({h \in Matching(st) : h <= i}) = k
                  /\ lastOp'.calls[k] = estimateAvailableBandwidth(st[i])
           /\ Matching(st) = {} => senders' = senders
           /\ \A i \in 1..Len(senders[c]) :
                \A j \in 1..Len(senders[c][i].params.encodings) :
                  LET pre == senders[c][i].params.encodings[j].maxBitrate
                      post == senders'[c][i].params.encodings[j].maxBitrate
                  IN pre # Unset => post = MinOf(pre, lastOp'.calls) ]_vars

\* C18: a tick of connection A and a direct adjustBitrate(A, B) change the
\* senders of A only: the senders of every other connection, the registry
\* and the mixed streams are as before, however the ticks of the
\* connections interleave.
C18_TickTouchesOwnSendersOnly ==
  [][ lastOp'.op \in {"tickFetch", "tickApply", "adjustBitrate"} =>
        /\ \A d \in Conns : d # lastOp'.pc => senders'[d] = senders[d]
        /\ UNCHANGED <<participants, mixedStreams>> ]_vars

\* a tick of one connection changed caps of its senders while a tick of
\* another connection, which has senders with encodings too, was waiting
\* for its statistics, with a registry and mixed streams in place
C18_Witness ==
  /\ lastOp.op = "tickApply"
  /\ lastOp.calls # <<>>
  /\ \E i \in 1..Len(senders[lastOp.pc]) :
       /\ senders[lastOp.pc][i].params.has
       /\ senders[lastOp.pc][i].params.encodings[1].maxBitrate = lastOp.calls[1]
  /\ \E d \in Conns :
       /\ d # lastOp.pc
       /\ awaiting[d] > 0
       /\ \E i \in 1..Len(senders[d]) :
            /\ senders[d][i].params.has
            /\ senders[d][i].params.encodings[1].maxBitrate # lastOp.calls[1]
  /\ participants # <<>>
  /\ DOMAIN mixedStreams # {}

\* C19: the mixed-stream map gets the entry of an origin-stream id at the
\* first handleTrack for that id, with the track as its only member; a
\* later handleTrack for the id adds its track to that entry and creates
\* none; every other entry is left alone, and no operation
\* (removeParticipant included) removes an entry or a member track.
C19_MixedStreamsOnlyGrow ==
  [][ /\ (lastOp'.op = "handleTrack" /\ lastOp'.streams # <<>>) =>
           LET sid == lastOp'.streams[1]
           IN /\ DOMAIN mixedStreams' = DOMAIN mixedStreams \cup {sid}
              /\ mixedStreams'[sid] =
                   IF sid \in DOMAIN mixedStreams
                   THEN mixedStreams[sid] \cup {lastOp'.track}
                   ELSE {lastOp'.track}
              /\ \A s \in DOMAIN mixedStreams :
                   s # sid => mixedStreams'[s] = mixedStreams[s]
      /\ ~(lastOp'.op = "handleTrack" /\ lastOp'.streams # <<>>) =>
           mixedStreams' = mixedStreams ]_vars

RECURSIVE ClampAll(_, _)
\* the cap after the estimates of q have been applied to it one by one
ClampAll(cap, q) ==
  IF q = <<>> THEN cap ELSE ClampAll(clampBitrate(Head(q), cap), Tail(q))

\* C20: every parameter update is applied in one piece to the parameters
\* the sender has at that moment, so that none is lost: adjustBitrate and
\* the second half of a tick change nothing but the caps, each from its
\* current value; enableSimulcast and enableSVC change the sender of their
\* track only, enableSVC keeping its current layers; removeTrack changes
\* no parameters; the first half of a tick, a failed call and every other
\* operation change no sender.
C20_NoLostUpdate ==
  [][ LET c == lastOp'.pc
          k == lastOp'.sender
          est == IF lastOp'.op = "tickApply" THEN lastOp'.calls
                 ELSE <<lastOp'.bw>>
      IN /\ (lastOp'.op \in {"adjustBitrate", "tickApply"} /\ ~lastOp'.threw) =>
              /\ Len(senders'[c]) = Len(senders[c])
              /\ \A i \in 1..Len(senders[c]) :
                   /\ senders'[c][i].track = senders[c][i].track
                   /\ senders'[c][i].params.has = senders[c][i].params.has
                   /\ Len(senders'[c][i].params.encodings) =
                        Len(senders[c][i].params.encodings)
                   /\ \A j \in 1..Len(senders[c][i].params.encodings) :
                        senders'[c][i].params.encodings[j] =
                          [senders[c][i].params.encodings[j] EXCEPT
                             !.maxBitrate = ClampAll(@, est)]
         /\ (lastOp'.op \in {"enableSimulcast", "enableSVC"} /\ ~lastOp'.threw) =>
              /\ k \in 1..Len(senders'[c])
              /\ \A i \in 1..Len(senders[c]) :
                   i # k => senders'[c][i] = senders[c][i]
              /\ lastOp'.op = "enableSimulcast" =>
                   senders'[c][k].params.encodings = SimulcastEncodings
              /\ (lastOp'.op = "enableSVC" /\ k <= Len(senders[c])
                    /\ senders[c][k].params.has) =>
                   senders'[c][k].params.encodings =
                     [senders[c][k].params.encodings EXCEPT
                        ![1].scalabilityMode = "L3T3_KEY"]
         /\ lastOp'.op = "removeTrack" =>
              /\ Len(senders'[c]) = Len(senders[c])
              /\ \A i \in 1..Len(senders[c]) :
                   senders'[c][i].params = senders[c][i].params
         /\ ( \/ lastOp'.op \in {"tickFetch", "monitorNetworkConditions",
                                  "close"}
              \/ lastOp'.threw ) => senders' = senders ]_vars

\* enableSimulcast replaced layers whose caps a tick had adjusted, while
\* another tick of the connection was between its statistics request and
\* its parameter update
C20_Witness ==
  /\ lastOp.op = "enableSimulcast"
  /\ ~lastOp.threw
  /\ awaiting[lastOp.pc] > 0
  /\ lastOp.prior.has
  /\ Len(lastOp.prior.encodings) = 3
  /\ lastOp.prior.encodings[3].maxBitrate = 0
  /\ senders[lastOp.pc][lastOp.sender].params.encodings[3].maxBitrate = 100000

\* C21: two ticks of a connection overlap (the second has requested its
\* statistics before the first applies) and complete one after the other;
\* every cap that was set and positive before the first of them applied is,
\* after both, the minimum of that value and all estimates of the two.
C21_OverlappingTicksOrderIndependent ==
  [][ ( /\ lastOp.op = "tickApply" /\ ~lastOp.threw
        /\ lastOp'.op = "tickApply" /\ ~lastOp'.threw
        /\ lastOp'.pc = lastOp.pc
        /\ awaiting[lastOp.pc] > 0 ) =>
        \A i \in 1..Len(lastOp.before) :
          \A j \in 1..Len(lastOp.before[i].params.encodings) :
            LET pre == lastOp.before[i].params.encodings[j].maxBitrate
                post == senders'[lastOp.pc][i].params.encodings[j].maxBitrate
            IN (pre # Unset /\ pre > 0) =>
                 post = MinOf(pre, lastOp.calls \o lastOp'.calls) ]_vars

\* the last handleTrack ran for a connection that is not (or no longer)
\* the one registered under the identifier its callback carries
FromUnregisteredConnection ==
  /\ lastOp.op = "handleTrack"
  /\ lastOp.streams # <<>>
  /\ \/ ~MapHas(participants, lastOp.id)
     \/ MapGet(participants, lastOp.id) # lastOp.pc

\* C22: a track event on a connection whose participant was removed, or
\* replaced by a duplicate addParticipant, is still handled as coming from
\* that participant: the track is in the mixed stream of its origin stream
\* and every registered participant with another id has received its
\* addTrack, the one registered under the same id none.
C22_CallbackSurvivesRemoval ==
  FromUnregisteredConnection =>
    /\ lastOp.id = ontrack[lastOp.pc]
    /\ lastOp.streams[1] \in DOMAIN mixedStreams
    /\ lastOp.track \in mixedStreams[lastOp.streams[1]]
    /\ \A i \in 1..Len(participants) :
         IF participants[i].id = lastOp.id
         THEN CallsTo(participants[i].id) = {}
         ELSE CallsTo(participants[i].id) # {}

\* the tracks for which handleTrack has run
MixedTracks == UNION {mixedStreams[s] : s \in DOMAIN mixedStreams}

\* C23 as stated: a participant that joined after handleTrack ran for a
\* track receives no addTrack for that track from a later operation other
\* than broadcastStream (here: from the operation that follows its join).
C23_LateJoinerNeverReceives ==
  [][ ( /\ lastOp.op = "addParticipant"
        /\ lastOp.old = 0
        /\ lastOp'.op # "broadcastStream" ) =>
        \A k \in 1..Len(lastOp'.calls) :
          ~( /\ lastOp'.calls[k].id = lastOp.id
             /\ lastOp'.calls[k].track \in MixedTracks ) ]_vars

\* C23 amended: tracks are forwarded by handleTrack, which forwards the
\* arriving track only (a track that arrives again included), and by
\* broadcastStream, which forwards the tracks of its stream only; every
\* other operation, addParticipant included, invokes no addTrack and leaves
\* every sender as it is: nothing is replayed to a late joiner.
C23_NoReplayToLateJoiners ==
  [][ /\ lastOp'.op \notin {"handleTrack", "broadcastStream"} =>
           /\ lastOp'.calls = <<>>
           /\ senders' = senders
      /\ lastOp'.op = "handleTrack" =>
           /\ \A k \in 1..Len(lastOp'.calls) :
                lastOp'.calls[k].track = lastOp'.track
           /\ \A d \in Conns : \A i \in 1..Len(senders'[d]) :
                i > Len(senders[d]) => senders'[d][i].track = lastOp'.track
      /\ lastOp'.op = "broadcastStream" =>
           /\ \A k \in 1..Len(lastOp'.calls) :
                lastOp'.calls[k].track \in SeqRange(lastOp'.tracks)
           /\ \A d \in Conns : \A i \in 1..Len(senders'[d]) :
                i > Len(senders[d]) =>
                  senders'[d][i].track \in SeqRange(lastOp'.tracks) ]_vars

\* a participant joined on an open connection after two tracks had
\* arrived and been forwarded to another participant; it has no sender
C23_Witness ==
  /\ lastOp.op = "addParticipant"
  /\ lastOp.old = 0
  /\ ~closed[lastOp.pc]
  /\ Cardinality(MixedTracks) = 2
  /\ senders[lastOp.pc] = <<>>
  /\ \E d \in Conns : Len(senders[d]) >= 2

\* C24: a track event without a stream makes handleTrack fail before it
\* changes anything: the mixed streams, the registry and every sender are
\* as before and no participant has received an addTrack.
C24_NoStreamChangesNothing ==
  [][ (lastOp'.op = "handleTrack" /\ lastOp'.streams = <<>>) =>
        /\ lastOp'.threw
        /\ lastOp'.calls = <<>>
        /\ UNCHANGED <<participants, mixedStreams, senders, ontrack,
                       closed>> ]_vars

\* handleTrack failed on an event without a stream while another
\* participant was registered on an open connection and a mixed stream
\* existed
C24_Witness ==
  /\ lastOp.op = "handleTrack"
  /\ lastOp.streams = <<>>
  /\ lastOp.threw
  /\ \E i \in 1..Len(participants) :
       /\ participants[i].id # lastOp.id
       /\ participants[i].pc # lastOp.pc
       /\ ~closed[participants[i].pc]
  /\ DOMAIN mixedStreams # {}

====
